---- MODULE Spec2Model ----
(***************************************************************************)
(* Plugin discovery and lifecycle composition of src/framework/plugin.ts:  *)
(* the name matcher, the manifest scan, the driver factory, the driver     *)
(* creator returned by create(definer), and the two hook aggregations.     *)
(*                                                                         *)
(* Strings that the code inspects character by character (dependency       *)
(* identifiers) are sequences of characters; a character is a one-letter   *)
(* string, and the four ECMAScript line terminators are "LF", "CR", "LS"   *)
(* and "PS".                                                               *)
(***************************************************************************)
EXTENDS Naturals, Sequences, FiniteSets, TLC

VARIABLES
    slots,                    \* per Driver Creator: maybeWorkflowPlugin, maybeRuntimePlugin
    packageJson,              \* the project's package.json as fs reads it
    pc,                       \* where the current load operation stands
    entry,                    \* the entry point of the current load and its layout
    pumpkinsPluginDepNames,   \* the filtered dependency names
    instantiatedPlugins,      \* the Drivers created so far by the current load
    selected,                 \* the Drivers kept by the aggregation's filter
    workflowHooks,            \* the aggregation's result list
    diag,                     \* the diagnostic given to fatal
    made,                     \* Drivers a consumer obtained by applying creators itself,
                              \* each with the registrars its application called (history)
    firstCall,                \* the first loader call a consumer made on one of them
    secondCall,               \* the latest repetition of that call
    log,                      \* history: module resolutions, creations and loader calls
    called,                   \* history: registrars each creator's definer ever called
    failure                   \* history: what went wrong in the current load

vars == <<slots, packageJson, pc, entry, pumpkinsPluginDepNames, instantiatedPlugins,
          selected, workflowHooks, diag, made, firstCall, secondCall, log, called,
          failure>>

loadVars == <<packageJson, pc, entry, pumpkinsPluginDepNames, instantiatedPlugins,
              selected, workflowHooks, diag, log, failure>>

consumerVars == <<made, firstCall, secondCall>>

----------------------------------------------------------------------------
(* Bounds *)

MaxDeps == 3          \* dependencies a manifest declares (Spec)
MaxScanDeps == 1      \* dependencies a manifest declares (SpecNames)
MaxSuffixLen == 2     \* characters after the prefix in a generated identifier
MaxRegCalls == 2      \* registrar calls one run of a defining function makes
MaxDrivers == 2       \* creator applications a consumer makes (SpecDriver)

----------------------------------------------------------------------------
(* Name Matcher *)

Prefix == <<"p","u","m","p","k","i","n","s","-","p","l","u","g","i","n","-">>

LineTerminators == {"LF", "CR", "LS", "PS"}

\* `.` of a regular expression without the s flag
MatchesDot(c) == c \notin LineTerminators

\* ^pumpkins-plugin- : the input starts with the prefix
StartsWithPrefix(s) ==
    /\ Len(s) >= Len(Prefix)
    /\ SubSeq(s, 1, Len(Prefix)) = Prefix

\* .+ is greedy: the index of the last character of the run that starts at i
RECURSIVE DotPlusEnd(_, _)
DotPlusEnd(s, i) ==
    IF i + 1 <= Len(s) /\ MatchesDot(s[i + 1]) THEN DotPlusEnd(s, i + 1) ELSE i

Null == [isNull |-> TRUE, value |-> <<>>]

Some(v) == [isNull |-> FALSE, value |-> v]

\* the pattern with (.*) for (.+): the bare prefix yields an empty name
ParsePluginNameStar(packageName) ==
    IF StartsWithPrefix(packageName)
    THEN Some(SubSeq(packageName, Len(Prefix) + 1,
                     DotPlusEnd(packageName, Len(Prefix))))
    ELSE Null

parsePluginName(packageName) ==
    IF /\ StartsWithPrefix(packageName)
       /\ Len(packageName) > Len(Prefix)
       /\ MatchesDot(packageName[Len(Prefix) + 1])
    THEN Some(SubSeq(packageName, Len(Prefix) + 1,
                     DotPlusEnd(packageName, Len(Prefix) + 1)))
    ELSE Null

\* the filter left out
KeepsEveryDep(depName) == TRUE

\* depName.match(/^pumpkins-plugin-.+/) is truthy
IsPluginDep(depName) ==
    /\ StartsWithPrefix(depName)
    /\ Len(depName) > Len(Prefix)
    /\ MatchesDot(depName[Len(Prefix) + 1])

----------------------------------------------------------------------------
(* Inputs *)

SeqsUpTo(S, n) == UNION {[1..k -> S] : k \in 0..n}

DistinctSeqs(S, n) ==
    {s \in SeqsUpTo(S, n) : \A i, j \in 1..Len(s) : s[i] = s[j] => i = j}

Lodash == <<"l","o","d","a","s","h">>

PluginA == Prefix \o <<"a">>
PluginB == Prefix \o <<"b">>
PluginC == Prefix \o <<"c">>

\* the dependency names of the manifests of Spec
DepNames == {Lodash, PluginA, PluginB, PluginC}

\* the dependency names of the manifests of SpecNames
Identifiers ==
    {Prefix \o s : s \in SeqsUpTo({"a", "LF"}, MaxSuffixLen)}
        \cup {Lodash, SubSeq(Prefix, 1, Len(Prefix) - 1), <<"x">> \o PluginA}

Absent == [exists |-> FALSE, hasDependencies |-> FALSE, dependencies |-> <<>>]

\* package.json: absent, without a dependencies key, or with one; Object.keys
\* yields the keys in declaration order (none of them is an array index)
PackageJsons(names, n) ==
    {Absent, [exists |-> TRUE, hasDependencies |-> FALSE, dependencies |-> <<>>]}
        \cup {[exists |-> TRUE, hasDependencies |-> TRUE, dependencies |-> d] :
                d \in DistinctSeqs(names, n)}

Names(pj) == {pj.dependencies[i] : i \in 1..Len(pj.dependencies)}

Layouts == {"L1", "L2"}

Unset == [defined |-> FALSE, owner |-> <<>>, throws |-> FALSE]

\* the functions the defining function of a plugin package hands to its lens:
\* the workflow definer of PluginC and the runtime producer of PluginB throw
WorkflowDefinerOf(pkg) == [defined |-> TRUE, owner |-> pkg, throws |-> pkg = PluginC]

RuntimePluginOf(pkg) == [defined |-> TRUE, owner |-> pkg, throws |-> pkg = PluginB]

\* what one run of a plugin's defining function does with its lens: the
\* registrars it calls, in order
DefinerCalls == SeqsUpTo({"workflow", "runtime"}, MaxRegCalls)

\* what require(depName) yields
Modules ==
    {[kind |-> k, calls |-> <<>>] :
        k \in {"unresolvable", "nullish", "noCreate", "createThrows"}}
        \cup {[kind |-> "plugin", calls |-> c] : c \in DefinerCalls}

----------------------------------------------------------------------------
(* WorkflowHooks and RuntimeContributions *)

EmptyObject == [k \in {} |-> {}]

Put(obj, key, val) ==
    [k \in (DOMAIN obj) \cup {key} |-> IF k = key THEN val ELSE obj[k]]

\* the default record without its generate phase
DefaultHooksWithoutGenerate ==
    [create |-> EmptyObject,
     dev |-> [addToSettings |-> EmptyObject],
     build |-> EmptyObject]

DefaultHooks ==
    [create |-> EmptyObject,
     dev |-> [addToSettings |-> EmptyObject],
     build |-> EmptyObject,
     generate |-> EmptyObject]

NoContributions == [context |-> <<>>, nexus |-> <<>>]

\* the registered workflow definer run on (hooks, {layout}): the definer of
\* PluginA fills the dev phase, the others the create, generate and build phases;
\* assigning into a phase the record lacks throws a TypeError
CallWorkflowDefiner(f, hooks, layout) ==
    IF f.throws THEN [threw |-> TRUE, hooks |-> hooks]
    ELSE IF f.owner = PluginA
    THEN IF "dev" \in DOMAIN hooks /\ "addToSettings" \in DOMAIN hooks.dev
         THEN [threw |-> FALSE,
               hooks |-> [hooks EXCEPT
                            !.dev = Put(Put(@, "onStart", f.owner), "addToSettings",
                                        Put(@.addToSettings, "watchFilePatterns",
                                            <<layout>>))]]
         ELSE [threw |-> TRUE, hooks |-> hooks]
    ELSE IF {"build", "generate", "create"} \subseteq DOMAIN hooks
         THEN [threw |-> FALSE,
               hooks |-> [hooks EXCEPT
                            !.build = Put(@, "onStart", f.owner),
                            !.generate = Put(@, "onStart", f.owner),
                            !.create = Put(@, "onAfterBaseSetup", <<f.owner, layout>>)]]
         ELSE [threw |-> TRUE, hooks |-> hooks]

\* the registered runtime producer run
CallRuntimePlugin(f) ==
    IF f.throws
    THEN [threw |-> TRUE, defined |-> FALSE, contributions |-> NoContributions]
    ELSE [threw |-> FALSE, defined |-> TRUE,
          contributions |-> [context |-> f.owner, nexus |-> <<>>]]

----------------------------------------------------------------------------
(* create(definer): the Driver Creator and the Driver *)

NoSlots == [maybeWorkflowPlugin |-> Unset, maybeRuntimePlugin |-> Unset]

LensRuntime(slot, f) == [slot EXCEPT !.maybeRuntimePlugin = f]

LensWorkflow(slot, f) == [slot EXCEPT !.maybeWorkflowPlugin = f]

\* the defining function run on the lens: its registrar calls, in order
RECURSIVE RunDefiner(_, _, _)
RunDefiner(slot, creator, calls) ==
    IF calls = <<>> THEN slot
    ELSE RunDefiner(IF Head(calls) = "runtime"
                    THEN LensRuntime(slot, RuntimePluginOf(creator))
                    ELSE LensWorkflow(slot, WorkflowDefinerOf(creator)),
                    creator, Tail(calls))

\* the slots the defining function of an application starts from: they are
\* declared in create, outside the function it returns
SlotsAtApplication(creator) == slots[creator]

\* the slots once the defining function of this application has returned
SlotsAfter(creator, calls) == RunDefiner(SlotsAtApplication(creator), creator, calls)

\* the two flags computed from each other's slot
DriverFlagsSwapped(pluginName, creator, slot) ==
    [name |-> pluginName,
     extendsWorkflow |-> slot.maybeRuntimePlugin # Unset,
     extendsRuntime |-> slot.maybeWorkflowPlugin # Unset,
     creator |-> creator]

Driver(pluginName, creator, slot) ==
    [name |-> pluginName,
     extendsWorkflow |-> slot.maybeWorkflowPlugin # Unset,
     extendsRuntime |-> slot.maybeRuntimePlugin # Unset,
     creator |-> creator]

loadWorkflowPlugin(driver, layout) ==
    LET maybeWorkflowPlugin == slots[driver.creator].maybeWorkflowPlugin
    IN  IF maybeWorkflowPlugin = Unset
        THEN [threw |-> FALSE, hooks |-> DefaultHooks]
        ELSE CallWorkflowDefiner(maybeWorkflowPlugin, DefaultHooks, layout)

loadRuntimePlugin(driver) ==
    LET maybeRuntimePlugin == slots[driver.creator].maybeRuntimePlugin
    IN  IF maybeRuntimePlugin = Unset
        THEN [threw |-> FALSE, defined |-> FALSE, contributions |-> NoContributions]
        ELSE CallRuntimePlugin(maybeRuntimePlugin)

CalledRegistrars(calls) == {calls[i] : i \in 1..Len(calls)}

----------------------------------------------------------------------------
(* The load *)

NoDiag == [kind |-> "none", plugin |-> <<>>]

NoFailure == [kind |-> "none", dep |-> <<>>]

NoEntry == [kind |-> "none", layout |-> "none"]

NoCall == [op |-> "none"]

Event(op, dep) == [op |-> op, dep |-> dep]

\* fatal reports the diagnostic and ends the process: nothing the process held
\* (closures, driver lists) outlives it
fatal(kind, pluginName) ==
    /\ pc' = "fatal"
    /\ diag' = [kind |-> kind, plugin |-> pluginName]
    /\ slots' = [n \in DOMAIN slots |-> NoSlots]
    /\ called' = [n \in DOMAIN called |-> {}]
    /\ instantiatedPlugins' = <<>>
    /\ selected' = <<>>
    /\ workflowHooks' = <<>>

\* Object.keys(packageJson?.dependencies ?? {}).filter(...)
ScanDependencies(pj) ==
    IF ~pj.exists \/ ~pj.hasDependencies THEN <<>>
    ELSE SelectSeq(pj.dependencies, IsPluginDep)

ExtendsWorkflow(driver) == driver.extendsWorkflow

ExtendsRuntime(driver) == driver.extendsRuntime

FilterWorkflow(plugins) == SelectSeq(plugins, ExtendsWorkflow)

\* the filter on extendsRuntime left out
FilterRuntimeKeepsAll(plugins) == plugins

FilterRuntime(plugins) == SelectSeq(plugins, ExtendsRuntime)

\* the Driver list is complete: return it, or hand it to the aggregation
FinishLoad(kind, plugins) ==
    LET sel == CASE kind = "workflow" -> FilterWorkflow(plugins)
                 [] kind = "runtime" -> FilterRuntime(plugins)
                 [] OTHER -> <<>>
    IN  /\ selected' = sel
        /\ workflowHooks' = <<>>
        /\ pc' = IF sel = <<>> THEN "returned" ELSE "aggregating"
        /\ diag' = NoDiag

\* __doLoadAllFromPackageJson up to the map over the matched names
doLoadAllFromPackageJson(kind) ==
    /\ pumpkinsPluginDepNames' = ScanDependencies(packageJson)
    /\ instantiatedPlugins' = <<>>
    /\ IF ScanDependencies(packageJson) = <<>>
       THEN FinishLoad(kind, <<>>)
       ELSE /\ pc' = "instantiating"
            /\ selected' = <<>>
            /\ workflowHooks' = <<>>
            /\ diag' = NoDiag

Idle == pc \in {"idle", "returned"}

BeginSync(kind, layout) ==
    /\ Idle
    /\ entry' = [kind |-> kind, layout |-> layout]
    /\ log' = <<>>
    /\ failure' = NoFailure
    /\ doLoadAllFromPackageJson(kind)
    /\ UNCHANGED <<slots, called, packageJson, consumerVars>>

BeginAsync(kind, layout) ==
    /\ Idle
    /\ entry' = [kind |-> kind, layout |-> layout]
    /\ log' = <<>>
    /\ failure' = NoFailure
    /\ pc' = "reading"
    /\ pumpkinsPluginDepNames' = <<>>
    /\ instantiatedPlugins' = <<>>
    /\ selected' = <<>>
    /\ workflowHooks' = <<>>
    /\ diag' = NoDiag
    /\ UNCHANGED <<slots, called, packageJson, consumerVars>>

loadAllFromPackageJson == BeginAsync("drivers", "none")

loadAllFromPackageJsonSync == BeginSync("drivers", "none")

loadAllWorkflowPluginsFromPackageJson == \E layout \in Layouts : BeginAsync("workflow", layout)

loadAllRuntimePluginsFromPackageJson == BeginAsync("runtime", "none")

loadAllRuntimePluginsFromPackageJsonSync == BeginSync("runtime", "none")

\* the awaited fs.readAsync resolves
ReadAsyncResolves ==
    /\ pc = "reading"
    /\ doLoadAllFromPackageJson(entry.kind)
    /\ UNCHANGED <<slots, called, packageJson, entry, log, failure, consumerVars>>

\* the catch around require(depName)
OnImportError(pluginName) == fatal("import", pluginName)

\* typeof SomePlugin.create !== 'function'
OnMissingCreate(pluginName) == fatal("noCreate", pluginName)

\* the catch around SomePlugin.create(pluginName)
OnCreateError(pluginName) == fatal("create", pluginName)

\* one run of the map callback of __doLoadAllFromPackageJson
InstantiateNext ==
    /\ pc = "instantiating"
    /\ LET depName == pumpkinsPluginDepNames[Len(instantiatedPlugins) + 1]
           pluginName == parsePluginName(depName).value
       IN  \E SomePlugin \in Modules :
             IF SomePlugin.kind = "unresolvable"
             THEN /\ OnImportError(pluginName)
                  /\ failure' = [kind |-> "unresolvable", dep |-> depName]
                  /\ log' = Append(log, Event("require", depName))
             ELSE IF SomePlugin.kind = "nullish"
             THEN \* SomePlugin.create throws a TypeError outside any try
                  /\ pc' = "threw"
                  /\ failure' = [kind |-> "nullish", dep |-> depName]
                  /\ log' = Append(log, Event("require", depName))
                  /\ UNCHANGED <<slots, called, instantiatedPlugins,
                                 selected, workflowHooks, diag>>
             ELSE IF SomePlugin.kind = "noCreate"
             THEN /\ OnMissingCreate(pluginName)
                  /\ failure' = [kind |-> "noCreate", dep |-> depName]
                  /\ log' = Append(log, Event("require", depName))
             ELSE IF SomePlugin.kind = "createThrows"
             THEN /\ OnCreateError(pluginName)
                  /\ failure' = [kind |-> "createThrows", dep |-> depName]
                  /\ log' = log \o <<Event("require", depName), Event("create", depName)>>
             ELSE LET slot == SlotsAfter(depName, SomePlugin.calls)
                      plugins == Append(instantiatedPlugins,
                                        Driver(pluginName, depName, slot))
                  IN  /\ slots' = [slots EXCEPT ![depName] = slot]
                      /\ called' = [called EXCEPT
                                      ![depName] = @ \cup CalledRegistrars(SomePlugin.calls)]
                      /\ instantiatedPlugins' = plugins
                      /\ log' = log \o <<Event("require", depName),
                                         Event("create", depName)>>
                      /\ failure' = failure
                      /\ IF Len(plugins) = Len(pumpkinsPluginDepNames)
                         THEN FinishLoad(entry.kind, plugins)
                         ELSE UNCHANGED <<pc, selected, workflowHooks, diag>>
    /\ UNCHANGED <<packageJson, entry, pumpkinsPluginDepNames, consumerVars>>

\* the map of an aggregation walked from its last driver
LastDriverFirst == selected[Len(selected) - Len(workflowHooks)]

\* the driver the map of an aggregation is at
CurrentDriver == selected[Len(workflowHooks) + 1]

\* the map callback returns the component
Collect(component) ==
    /\ workflowHooks' = Append(workflowHooks, component)
    /\ pc' = IF Len(workflowHooks) + 1 = Len(selected) THEN "returned" ELSE "aggregating"
    /\ UNCHANGED <<diag, slots, called, instantiatedPlugins, selected>>

\* the catch around driver.loadWorkflowPlugin(layout)
OnWorkflowLoadError(driver) == fatal("workflow", driver.name)

\* a catch that only logs: the callback returns its unassigned variable
LogRuntimeLoadError(driver) ==
    Collect([threw |-> FALSE, defined |-> FALSE, contributions |-> NoContributions])

\* the catch around driver.loadRuntimePlugin()
OnRuntimeLoadError(driver) == fatal("runtime", driver.name)

\* one run of the map callback of loadAllWorkflowPluginsFromPackageJson
LoadWorkflowComponent ==
    /\ pc = "aggregating"
    /\ entry.kind = "workflow"
    /\ LET driver == CurrentDriver
           r == loadWorkflowPlugin(driver, entry.layout)
       IN  /\ log' = Append(log, Event("loadWorkflowPlugin", driver.creator))
           /\ IF r.threw
              THEN /\ OnWorkflowLoadError(driver)
                   /\ failure' = [kind |-> "workflowLoader", dep |-> driver.creator]
              ELSE /\ Collect(r.hooks)
                   /\ failure' = failure
    /\ UNCHANGED <<packageJson, entry, pumpkinsPluginDepNames, consumerVars>>

\* one run of the map callback of __doLoadAllRuntimePluginsFromPackageJson
LoadRuntimeComponent ==
    /\ pc = "aggregating"
    /\ entry.kind = "runtime"
    /\ LET driver == CurrentDriver
           r == loadRuntimePlugin(driver)
       IN  /\ log' = Append(log, Event("loadRuntimePlugin", driver.creator))
           /\ IF r.threw
              THEN /\ OnRuntimeLoadError(driver)
                   /\ failure' = [kind |-> "runtimeLoader", dep |-> driver.creator]
              ELSE /\ Collect(r)
                   /\ failure' = failure
    /\ UNCHANGED <<packageJson, entry, pumpkinsPluginDepNames, consumerVars>>

----------------------------------------------------------------------------
(* Specifications *)

\* the module cache holds one Driver Creator for each package the manifest names
InitWith(manifests) ==
    /\ packageJson \in manifests
    /\ slots = [n \in Names(packageJson) |-> NoSlots]
    /\ called = [n \in Names(packageJson) |-> {}]
    /\ pc = "idle"
    /\ entry = NoEntry
    /\ pumpkinsPluginDepNames = <<>>
    /\ instantiatedPlugins = <<>>
    /\ selected = <<>>
    /\ workflowHooks = <<>>
    /\ diag = NoDiag
    /\ log = <<>>
    /\ failure = NoFailure
    /\ made = <<>>
    /\ firstCall = NoCall
    /\ secondCall = NoCall

Init == InitWith(PackageJsons(DepNames, MaxDeps))

Next ==
    \/ loadAllFromPackageJson
    \/ loadAllFromPackageJsonSync
    \/ loadAllWorkflowPluginsFromPackageJson
    \/ loadAllRuntimePluginsFromPackageJson
    \/ loadAllRuntimePluginsFromPackageJsonSync
    \/ ReadAsyncResolves
    \/ InstantiateNext
    \/ LoadWorkflowComponent
    \/ LoadRuntimeComponent

Spec == Init /\ [][Next]_vars

\* the same load over manifests of generated identifiers
InitNames == InitWith(PackageJsons(Identifiers, MaxScanDeps))

SpecNames == InitNames /\ [][Next]_vars

----------------------------------------------------------------------------
(* A consumer that applies Driver Creators and calls the loaders itself *)

\* the function returned by create(definer), applied to the plugin's name
ApplyDriverCreator ==
    /\ Len(made) < MaxDrivers
    /\ \E creator \in DOMAIN slots, calls \in DefinerCalls :
          LET slot == SlotsAfter(creator, calls)
          IN  /\ slots' = [slots EXCEPT ![creator] = slot]
              /\ called' = [called EXCEPT ![creator] = @ \cup CalledRegistrars(calls)]
              /\ made' = Append(made,
                                [driver |-> Driver(parsePluginName(creator).value,
                                                   creator, slot),
                                 registered |-> CalledRegistrars(calls)])
    /\ UNCHANGED <<loadVars, firstCall, secondCall>>

Observe(op, i, layout, res, registeredEver) ==
    LET call == [op |-> op, driver |-> i, layout |-> layout, res |-> res,
                 registeredEver |-> registeredEver]
    IN  IF firstCall = NoCall
        THEN firstCall' = call /\ UNCHANGED secondCall
        ELSE /\ firstCall.op = op
             /\ firstCall.driver = i
             /\ firstCall.layout = layout
             /\ secondCall' = call
             /\ UNCHANGED firstCall

CallLoadWorkflowPlugin ==
    /\ \E i \in 1..Len(made), layout \in Layouts :
          Observe("loadWorkflowPlugin", i, layout,
                  loadWorkflowPlugin(made[i].driver, layout),
                  "workflow" \in called[made[i].driver.creator])
    /\ UNCHANGED <<loadVars, slots, called, made>>

CallLoadRuntimePlugin ==
    /\ \E i \in 1..Len(made) :
          Observe("loadRuntimePlugin", i, "none",
                  loadRuntimePlugin(made[i].driver),
                  "runtime" \in called[made[i].driver.creator])
    /\ UNCHANGED <<loadVars, slots, called, made>>

InitDriver ==
    InitWith({[exists |-> TRUE, hasDependencies |-> TRUE,
               dependencies |-> <<PluginA, PluginB>>]})

NextDriver ==
    \/ ApplyDriverCreator
    \/ CallLoadWorkflowPlugin
    \/ CallLoadRuntimePlugin

SpecDriver == InitDriver /\ [][NextDriver]_vars

----------------------------------------------------------------------------
(* Properties *)

Deps == packageJson.dependencies

Pos(d) == CHOOSE i \in 1..Len(Deps) : Deps[i] = d

\* the identifier is the prefix followed by at least one character
HasPrefixAndMore(s) ==
    /\ Len(s) > Len(Prefix)
    /\ \A i \in 1..Len(Prefix) : s[i] = Prefix[i]

Remainder(s) == [i \in 1..(Len(s) - Len(Prefix)) |-> s[i + Len(Prefix)]]

\* the characters of r before its first line terminator
FirstLine(r) ==
    LET n == CHOOSE k \in 0..Len(r) :
                 /\ \A m \in 1..k : r[m] \notin LineTerminators
                 /\ (k < Len(r) => r[k + 1] \in LineTerminators)
    IN  [i \in 1..n |-> r[i]]

Declared(i) == HasPrefixAndMore(Deps[i])

IsCreate(e) == e.op = "create"

IsLoader(e) == e.op \in {"loadWorkflowPlugin", "loadRuntimePlugin"}

Creates == SelectSeq(log, IsCreate)

Loaders == SelectSeq(log, IsLoader)

Aggregated == pc = "returned" /\ entry.kind \in {"workflow", "runtime"}

Qualifies(driver) ==
    IF entry.kind = "workflow" THEN driver.extendsWorkflow ELSE driver.extendsRuntime

\* what the loader of the plugin package dep yields once its function is registered
ComponentOf(dep) ==
    IF entry.kind = "workflow"
    THEN CallWorkflowDefiner(WorkflowDefinerOf(dep), DefaultHooks, entry.layout).hooks
    ELSE [threw |-> FALSE, defined |-> TRUE,
          contributions |-> [context |-> dep, nexus |-> <<>>]]

\* C1: a matched dependency whose module does not resolve, has no callable
\* create, or whose create throws ends the load fatally with a diagnostic that
\* names the plugin; no list is returned and no loader has been invoked.
C1_InstantiationFailureIsFatal ==
    failure.kind \in {"unresolvable", "nullish", "noCreate", "createThrows"} =>
        /\ pc = "fatal"
        /\ diag.kind \in {"import", "noCreate", "create"}
        /\ diag.plugin = Remainder(failure.dep)
        /\ Loaders = <<>>

\* C2: the flags of every Driver say which registrars the defining function
\* called during the application that made that Driver.
C2_FlagsReflectOwnApplication ==
    \A i \in 1..Len(made) :
        /\ made[i].driver.extendsWorkflow = ("workflow" \in made[i].registered)
        /\ made[i].driver.extendsRuntime = ("runtime" \in made[i].registered)

\* C3: an aggregation returns, in manifest order, exactly one component per
\* declared plugin whose Driver has the flag of the lifecycle, and nothing else.
C3_AggregationIsOrderedSubsequence ==
    Aggregated =>
        LET Q == {i \in 1..Len(Deps) :
                     /\ Declared(i)
                     /\ \E k \in 1..Len(instantiatedPlugins) :
                            /\ instantiatedPlugins[k].creator = Deps[i]
                            /\ Qualifies(instantiatedPlugins[k])}
            Rank(i) == Cardinality({j \in Q : j <= i})
        IN  /\ Len(workflowHooks) = Cardinality(Q)
            /\ \A i \in Q : workflowHooks[Rank(i)] = ComponentOf(Deps[i])

C3_Witness ==
    /\ pc = "returned"
    /\ entry.kind = "runtime"
    /\ Deps = <<PluginA, PluginB, PluginC>>
    /\ Len(instantiatedPlugins) = 3
    /\ instantiatedPlugins[1].extendsRuntime
    /\ ~instantiatedPlugins[2].extendsRuntime
    /\ instantiatedPlugins[3].extendsRuntime
    /\ Len(workflowHooks) = 2

\* C4: a plugin whose defining function has called lens.runtime and never
\* lens.workflow has a Driver with extendsWorkflow false and extendsRuntime true;
\* the workflow aggregation never calls its loadWorkflowPlugin and holds no entry
\* of it, the runtime aggregation holds exactly one.
C4_RuntimeOnlyPlugin ==
    \A k \in 1..Len(instantiatedPlugins) :
        LET d == instantiatedPlugins[k]
        IN  called[d.creator] = {"runtime"} =>
              /\ ~d.extendsWorkflow
              /\ d.extendsRuntime
              /\ \A i \in 1..Len(log) : log[i] # Event("loadWorkflowPlugin", d.creator)
              /\ (pc = "returned" /\ entry.kind = "workflow" =>
                    /\ Len(workflowHooks) = Len(Loaders)
                    /\ \A j \in 1..Len(workflowHooks) :
                           workflowHooks[j] # ComponentOf(d.creator))
              /\ (pc = "returned" /\ entry.kind = "runtime" =>
                    Cardinality({j \in 1..Len(workflowHooks) :
                                    workflowHooks[j] = ComponentOf(d.creator)}) = 1)

C4_Witness ==
    /\ pc = "returned"
    /\ entry.kind = "workflow"
    /\ Len(workflowHooks) = 1
    /\ \E k \in 1..Len(instantiatedPlugins) :
           called[instantiatedPlugins[k].creator] = {"runtime"}

WellShaped(h) ==
    /\ {"create", "dev", "generate", "build"} \subseteq DOMAIN h
    /\ "addToSettings" \in DOMAIN h.dev

Untouched(h) ==
    /\ DOMAIN h = {"create", "dev", "generate", "build"}
    /\ DOMAIN h.create = {}
    /\ DOMAIN h.generate = {}
    /\ DOMAIN h.build = {}
    /\ DOMAIN h.dev = {"addToSettings"}
    /\ DOMAIN h.dev.addToSettings = {}

ShapedCall(c) ==
    (c.op = "loadWorkflowPlugin" /\ ~c.res.threw) =>
        /\ WellShaped(c.res.hooks)
        /\ (~c.registeredEver => Untouched(c.res.hooks))

\* C5: every record loadWorkflowPlugin returns has the four phase keys and
\* dev.addToSettings; with no workflow definer registered it is the untouched
\* default.
C5_WorkflowHooksAreShaped == ShapedCall(firstCall) /\ ShapedCall(secondCall)

C5_Witness ==
    /\ firstCall.op = "loadWorkflowPlugin"
    /\ ~firstCall.registeredEver
    /\ secondCall.op = "loadWorkflowPlugin"
    /\ secondCall.registeredEver
    /\ ~secondCall.res.threw
    /\ "onStart" \in DOMAIN secondCall.res.hooks.dev

\* C6: a loader called again on the same Driver (with the same layout) yields
\* what it yielded the first time, whatever happened in between.
C6_RepeatedCallSameResult ==
    secondCall # NoCall => secondCall.res = firstCall.res

\* C7: a loader that throws during an aggregation ends it fatally with a
\* diagnostic naming the driver and the lifecycle; a returned list has an entry,
\* never an unset one, for every qualifying driver.
C7_LoaderFailureIsFatal ==
    /\ failure.kind = "workflowLoader" =>
           /\ pc = "fatal"
           /\ diag = [kind |-> "workflow", plugin |-> Remainder(failure.dep)]
    /\ failure.kind = "runtimeLoader" =>
           /\ pc = "fatal"
           /\ diag = [kind |-> "runtime", plugin |-> Remainder(failure.dep)]
    /\ Aggregated =>
           /\ failure = NoFailure
           /\ Len(workflowHooks) = Len(selected)
           /\ \A j \in 1..Len(selected) :
                  /\ workflowHooks[j] = ComponentOf(selected[j].creator)
                  /\ ~WorkflowDefinerOf(selected[j].creator).throws
                         \/ entry.kind # "workflow"
                  /\ ~RuntimePluginOf(selected[j].creator).throws
                         \/ entry.kind # "runtime"

C7_Witness ==
    /\ pc = "fatal"
    /\ failure.kind = "runtimeLoader"
    /\ Len(Loaders) = 2
    /\ Loaders[2].dep = failure.dep

\* no dependency is the prefix followed by a name
NoPluginDeclared ==
    \/ ~packageJson.exists
    \/ ~packageJson.hasDependencies
    \/ \A i \in 1..Len(Deps) : ~Declared(i)

\* C8: with the manifest absent, without dependencies or without a plugin
\* dependency, every load returns empty lists: no fatal end, no error, no module
\* resolved or instantiated.
C8_NoPluginsNoError ==
    NoPluginDeclared =>
        /\ pc \in {"idle", "reading", "returned"}
        /\ log = <<>>
        /\ instantiatedPlugins = <<>>
        /\ workflowHooks = <<>>
        /\ failure = NoFailure
        /\ diag = NoDiag

C8_Witness ==
    /\ pc = "returned"
    /\ entry.kind = "workflow"
    /\ packageJson.hasDependencies
    /\ Deps = <<Lodash>>

\* C9: within a load the declared plugins are created one at a time in manifest
\* order, every creation precedes every loader call, and the loaders of the
\* qualifying drivers run in manifest order, each once.
C9_SequentialInManifestOrder ==
    /\ \A i, j \in 1..Len(log) : (i < j /\ IsLoader(log[i])) => IsLoader(log[j])
    /\ \A k \in 1..Len(Creates) :
           /\ Declared(Pos(Creates[k].dep))
           /\ Cardinality({j \in 1..Pos(Creates[k].dep) : Declared(j)}) = k
    /\ Loaders # <<>> => Len(Creates) = Cardinality({i \in 1..Len(Deps) : Declared(i)})
    /\ \A a, b \in 1..Len(Loaders) :
           a < b => Pos(Loaders[a].dep) < Pos(Loaders[b].dep)
    /\ \A a \in 1..Len(Loaders) :
           Loaders[a].op = IF entry.kind = "workflow" THEN "loadWorkflowPlugin"
                                                     ELSE "loadRuntimePlugin"
    /\ Aggregated =>
           {Loaders[a].dep : a \in 1..Len(Loaders)}
               = {instantiatedPlugins[k].creator : k \in
                     {k \in 1..Len(instantiatedPlugins) :
                         Qualifies(instantiatedPlugins[k])}}

C9_Witness ==
    /\ pc = "returned"
    /\ entry.kind = "workflow"
    /\ Len(Creates) = 3
    /\ Len(Loaders) = 2

ScanDone == pc \notin {"idle", "reading"}

KeptByScan(d) == \E k \in 1..Len(pumpkinsPluginDepNames) : pumpkinsPluginDepNames[k] = d

\* C10 as stated: parsePluginName yields the whole remainder of every identifier
\* that is the prefix followed by at least one character and null for every
\* other; the scan keeps exactly the identifiers with a name, and a Driver's
\* name is that remainder.
C10_NameIsWholeRemainder ==
    ScanDone =>
        /\ \A i \in 1..Len(Deps) :
               /\ parsePluginName(Deps[i]) =
                      IF HasPrefixAndMore(Deps[i]) THEN Some(Remainder(Deps[i])) ELSE Null
               /\ KeptByScan(Deps[i]) <=> ~parsePluginName(Deps[i]).isNull
        /\ \A k \in 1..Len(instantiatedPlugins) :
               /\ instantiatedPlugins[k].name # <<>>
               /\ instantiatedPlugins[k].name = Remainder(instantiatedPlugins[k].creator)

\* C10, amended: parsePluginName yields the characters that follow the prefix up
\* to the first line terminator when the prefix is followed by a character that
\* is not a line terminator, and null otherwise; the scan keeps exactly the
\* identifiers with a name, and a Driver's name is that non-empty name.
C10_NameIsFirstLineOfRemainder ==
    ScanDone =>
        /\ \A i \in 1..Len(Deps) :
               /\ parsePluginName(Deps[i]) =
                      IF /\ HasPrefixAndMore(Deps[i])
                         /\ Deps[i][Len(Prefix) + 1] \notin LineTerminators
                      THEN Some(FirstLine(Remainder(Deps[i])))
                      ELSE Null
               /\ KeptByScan(Deps[i]) <=> ~parsePluginName(Deps[i]).isNull
        /\ \A k \in 1..Len(instantiatedPlugins) :
               /\ instantiatedPlugins[k].name # <<>>
               /\ instantiatedPlugins[k].name
                      = FirstLine(Remainder(instantiatedPlugins[k].creator))

C10_Witness ==
    /\ pc = "returned"
    /\ \E k \in 1..Len(instantiatedPlugins) :
           /\ instantiatedPlugins[k].creator = Prefix \o <<"a", "LF">>
           /\ instantiatedPlugins[k].name = <<"a">>

====
